---------------------------- MODULE Spec2Model ----------------------------
(***************************************************************************)
(* The Ape-X actor of Code/DQN/Ape-X/container_mount/code/actor.py as a    *)
(* state machine: Actor.__init__, Actor.reset/_initialize, the loop of     *)
(* Actor.run and Actor._pull_params.  The environment, the policy network  *)
(* and the redis server are collaborators: what they return is an input    *)
(* of the action that calls them.                                          *)
(*                                                                         *)
(* Numbers.  Rewards are Python floats and the discount is a float; the    *)
(* model computes with exact fractions [num, den] in lowest terms, so      *)
(* gamma ** i is a fraction and a sum of discounted rewards is exact.      *)
(* A screen is one pixel (a byte) instead of a 210x160 grid: the resize    *)
(* of preproc_state has nothing to do on one pixel, the pixel-wise max and *)
(* the division by 255 are kept.                                           *)
(***************************************************************************)
EXTENDS Integers, Sequences, FiniteSets, TLC

VARIABLES
    env,            \* self._env: the environment object given to __init__
    batch_size,     \* self._batch_size
    nstep_return,   \* self._nstep_return
    gamma,          \* self._gamma
    target_update,  \* self._target_update
    buf_size,       \* self._img_buf.maxlen
    actor_no,       \* self._actor_no
    num_total_actors, \* self._num_total_actors
    pc,             \* where the actor is: "start", "init", "loop", "reset", "crashed"
    img_buf,        \* self._img_buf, oldest tile first
    noop_count,     \* env.step(0) calls made by the reset() that just returned
    state,          \* run's local `state`
    step_buffer,    \* run's local deque `step_buffer`
    gamma_nsteps,   \* run's local list `gamma_nsteps`
    eps,            \* run's local `eps`
    length_epsiode, \* run's local counter (the source's spelling)
    n_episode,      \* run's local counter
    t,              \* the loop variable of `for t in count()`
    local_memory,   \* self._local_memory
    policy_net,     \* the parameters held by self._policy_net
    queue,          \* the redis list 'experience', as this actor's pushes built it
    err,            \* the exception that ended run, "" while it runs
    ev,             \* what the last loop iteration did (observation only)
    hist            \* when each transition was generated (observation only)

vars == <<env, batch_size, nstep_return, gamma, target_update, buf_size,
          actor_no, num_total_actors, pc, img_buf, noop_count, state,
          step_buffer, gamma_nsteps, eps, length_epsiode, n_episode, t,
          local_memory, policy_net, queue, err, ev, hist>>

config == <<env, batch_size, nstep_return, gamma, target_update, buf_size,
            actor_no, num_total_actors>>

---------------------------------------------------------------------------
(* Bounds of the model and constants of the program.                       *)

\* Loop iterations explored against a game that can end (t = 0 .. MaxIter-1).
MaxIter == 3

\* Loop iterations explored against a game that never ends: enough to pass
\* the cap on the episode length.
MaxStillIter == 12503

\* self.no_op_steps
no_op_steps == 30

\* The cap on length_epsiode in `if done or length_epsiode > 50000`.
MaxEpisodeLength == 50000

\* `for i in range(4)`: environment steps per decision.
FrameSkip == 4

\* replay_memory.ReplayMemory(1000)
MemoryCapacity == 1000

\* The grey level an 8-bit pixel is divided by in preproc_state.
PixelScale == 255

\* Actor.EPS_ALPHA
EPS_ALPHA == 7

---------------------------------------------------------------------------
(* Exact fractions.                                                        *)

Abs(x) == IF x < 0 THEN -x ELSE x

Min(a, b) == IF a <= b THEN a ELSE b

Max(a, b) == IF a >= b THEN a ELSE b

RECURSIVE GCD(_, _)
GCD(a, b) == IF b = 0 THEN a ELSE GCD(b, a % b)

\* n/d in lowest terms, d > 0.
Rat(n, d) ==
    LET g == GCD(Abs(n), d)
    IN  [num |-> n \div g, den |-> d \div g]

RatAdd(a, b) == Rat(a.num * b.den + b.num * a.den, a.den * b.den)

RatMul(a, b) == Rat(a.num * b.num, a.den * b.den)

RECURSIVE RatPow(_, _)
RatPow(a, i) == IF i = 0 THEN Rat(1, 1) ELSE RatMul(a, RatPow(a, i - 1))

\* A real number that is a root of a fraction: the index-th root of radicand.
Exact(a) == [radicand |-> a, index |-> 1]

\* b ** e for a fraction b and a fraction e >= 0 in lowest terms: the
\* e.den-th root of b ** e.num.
Power(b, e) == [radicand |-> RatPow(b, e.num), index |-> e.den]

---------------------------------------------------------------------------
(* Python containers.                                                      *)

\* seq[k] of Python: k >= 0 counts from the front, k < 0 from the back.
PyIndex(seq, k) == IF k < 0 THEN seq[Len(seq) + k + 1] ELSE seq[k + 1]

\* Mutant of DequeAppend: a deque that never evicts.
DequeAppendNoEvict(d, x, m) == Append(d, x)

\* deque(maxlen = m).append(x)
DequeAppend(d, x, m) ==
    IF m = 0 THEN d
    ELSE IF Len(d) >= m THEN Append(Tail(d), x)
    ELSE Append(d, x)

\* np.random.randint(low, high): high is exclusive.
RandInt(low, high) == low .. (high - 1)

---------------------------------------------------------------------------
(* Collaborators of the actor that are not part of actor.py.               *)

\* utils.Transition(state, action, reward, next_state, done)
Transition(s, a, r, ns, d) ==
    [state |-> s, action |-> a, reward |-> r, next_state |-> ns, done |-> d]

\* utils.dumps / utils.loads: the serialized form is a tagged copy of the
\* value, and loads takes the value out of it.
dumps(x) == <<"pickle", x>>

loads(b) == b[2]

\* ReplayMemory.push: append, the oldest entry gives way at capacity.
MemoryPush(mem, x) == DequeAppend(mem, x, MemoryCapacity)

\* The ways to draw k distinct positions of a list of n entries, in the
\* order drawn.
SampleIndices(n, k) ==
    { g \in [1..k -> 1..n] : \A i, j \in 1..k : i # j => g[i] # g[j] }

\* The entries of seq at the positions f, in f's order.
Pick(seq, f) == [i \in 1..Len(f) |-> seq[f[i]]]

\* ReplayMemory.sample(k): k entries at distinct positions, in any order.
MemorySample(mem, k) == { Pick(mem, f) : f \in SampleIndices(Len(mem), k) }

\* policy_net.calc_priorities(policy_net, samples, gamma = discount): one
\* weight per sample; the weight records the parameters and the discount
\* it was scored with.
calc_priorities(params, samples, discount) ==
    [i \in 1..Len(samples) |-> [params |-> params, discount |-> discount]]

\* utils.epsilon_greedy(state, policy_net, eps): a uniformly random action
\* with probability e, the action the policy scores highest otherwise.  The
\* policy is opaque, so either way any action of the environment.
epsilon_greedy(actions, params, e) == actions

\* The parameters policy_net is constructed with.
InitialParams == "p0"

\* The values the learner may have stored under the redis key 'params'.
StoredParams == {"p1", "p2"}

\* What GET 'params' can return: None, or a serialized parameter set.
None == <<>>

GetReplies == {None} \cup { dumps(p) : p \in StoredParams }

---------------------------------------------------------------------------
(* Pure functions of actor.py.                                             *)

\* Mutant of clip: the reward is passed on as it is.
NoClip(x) == x

\* The default `clip` argument of __init__: min(max(-1.0, x), 1.0).
clip(x) == Min(Max(-1, x), 1)

\* preproc_state(screen): the pixel-wise max of the two channels, then the
\* division by 255.0 (the resize acts on the grid, which is one pixel here).
preproc_state(screen) == Rat(Max(screen[1], screen[2]), PixelScale)

\* np.array(list(self._img_buf))
Snapshot(buf) == buf

\* Actor.EPS_BASE
EPS_BASE == Rat(2, 5)

\* Mutant of Epsilon: the factor EPS_ALPHA is missing.
EpsilonNoAlpha(a, n) ==
    IF n = 1 THEN Exact(EPS_BASE)
    ELSE Power(EPS_BASE, RatAdd(Rat(1, 1), Rat(a - 1, n - 1)))

\* Lines 97-100: eps for actor a of n.
Epsilon(a, n) ==
    IF n = 1 THEN Exact(EPS_BASE)
    ELSE Power(EPS_BASE,
               RatAdd(Rat(1, 1), RatMul(Rat(a - 1, n - 1), Rat(EPS_ALPHA, 1))))

\* The value of a local of run that is not bound yet.
Unbound == [radicand |-> Rat(0, 1), index |-> 0]

\* gamma_nsteps = [self._gamma ** i for i in range(self._nstep_return + 1)]
GammaNSteps(g, n) == [k \in 1..(n + 1) |-> RatPow(g, k - 1)]

\* Mutant of FrameRepeat: the loop is left when a step reports done.
RECURSIVE FrameRepeatUntilDone(_, _, _)
FrameRepeatUntilDone(resp, i, acc) ==
    IF i >= FrameSkip \/ acc.done THEN acc
    ELSE LET sub == resp[i + 1]
             a1 == [acc EXCEPT !.length = acc.length + 1,
                               !.reward = acc.reward + sub.reward,
                               !.done = sub.done,
                               !.steps = acc.steps + 1,
                               !.stepped = Append(acc.stepped, acc.action)]
             a2 == IF i = 2 THEN [a1 EXCEPT !.ch0 = sub.screen] ELSE a1
             a3 == IF i = 3 THEN [a2 EXCEPT !.ch1 = sub.screen] ELSE a2
         IN  FrameRepeatUntilDone(resp, i + 1, a3)

\* The body of `for i in range(4)`, for i, i+1, ... : acc holds the action,
\* reward, done, the two channels of screen_temp and length_epsiode, and
\* the actions env.step was called with.
RECURSIVE FrameRepeat(_, _, _)
FrameRepeat(resp, i, acc) ==
    IF i >= FrameSkip THEN acc
    ELSE LET sub == resp[i + 1]
             a1 == [acc EXCEPT !.length = acc.length + 1,
                               !.reward = acc.reward + sub.reward,
                               !.done = sub.done,
                               !.steps = acc.steps + 1,
                               !.stepped = Append(acc.stepped, acc.action)]
             a2 == IF i = 2 THEN [a1 EXCEPT !.ch0 = sub.screen] ELSE a1
             a3 == IF i = 3 THEN [a2 EXCEPT !.ch1 = sub.screen] ELSE a2
         IN  FrameRepeat(resp, i + 1, a3)

\* Mutant of DiscountedSum: gamma_nsteps indexed from the front, so that
\* the oldest reward is the least discounted.
RECURSIVE DiscountedSumForward(_, _, _, _)
DiscountedSumForward(gs, sb, i, n) ==
    IF i >= n THEN Rat(0, 1)
    ELSE RatAdd(RatMul(PyIndex(gs, i), PyIndex(sb, i).reward),
                DiscountedSumForward(gs, sb, i + 1, n))

\* r_nstep = sum([gamma_nsteps[-(i + 2)] * step_buffer[i].reward
\*                for i in range(step_buffer.maxlen)])
RECURSIVE DiscountedSum(_, _, _, _)
DiscountedSum(gs, sb, i, n) ==
    IF i >= n THEN Rat(0, 1)
    ELSE RatAdd(RatMul(PyIndex(gs, -(i + 2)), PyIndex(sb, i).reward),
                DiscountedSum(gs, sb, i + 1, n))

\* The transition pushed to the local memory once the step buffer is full.
NStepTransition(gs, sb, n) ==
    Transition(PyIndex(sb, 0).state, PyIndex(sb, 0).action,
               DiscountedSum(gs, sb, 0, n),
               PyIndex(sb, -1).next_state, PyIndex(sb, -1).done)

\* Mutant of ResetDue: the terminal flag is not looked at.
ResetDueOnCap(done, length) == length > MaxEpisodeLength

\* Mutant of ResetDue: the cap is reached one step early.
ResetDueAtCap(done, length) == done \/ length >= MaxEpisodeLength

\* `if done or length_epsiode > 50000`
ResetDue(done, length) == done \/ length > MaxEpisodeLength

\* Mutant of ClearWindow: the window survives the reset.
KeepWindow(w) == w

\* step_buffer.clear() of line 134, on a window or on what is recorded
\* about its entries.
ClearWindow(w) == <<>>

\* Mutant of PublishDue: the threshold must be exceeded.
PublishDueAbove(mem, b) == Len(mem) > b

\* `if len(self._local_memory) >= self._batch_size`
PublishDue(mem, b) == Len(mem) >= b

---------------------------------------------------------------------------
(* The tail of a loop iteration: lines 136-147 of run, and _pull_params.   *)

\* Mutant of PullParams: stored parameters are loaded only over the
\* parameters the actor was constructed with.
PullParamsOnce(params, reply) ==
    IF reply # None /\ params = InitialParams THEN loads(reply) ELSE params

\* _pull_params with the reply of GET 'params' given: the parameters the
\* policy holds afterwards.
PullParams(params, reply) ==
    IF reply # None THEN loads(reply) ELSE params

\* Mutant of SyncDue: the test t > 0 is missing.
SyncDueFromZero(tt, cadence) == cadence # 0 /\ tt % cadence = 0

\* `if t > 0 and t % self._target_update == 0`, for a non-zero cadence.
SyncDue(tt, cadence) == tt > 0 /\ tt % cadence = 0

\* Mutant of rpush: the record is put at the head of the list.
lpush(q, x) == <<x>> \o q

\* self._connect.rpush('experience', x): x is appended to the list.
rpush(q, x) == Append(q, x)

\* Lines 136-144 from local memory `mem`: every outcome of the sampling
\* and of RPUSH.  occ is len(self._local_memory) as line 136 reads it,
\* pushed the number of records appended to the queue, picked the positions
\* of mem the sample was drawn from.
PublishOutcomes(mem, params, q, gs, b) ==
    IF PublishDue(mem, b)
    THEN { [local_memory |-> <<>>,
            queue |-> rpush(q, dumps(<<Pick(mem, f),
                                       calc_priorities(params, Pick(mem, f),
                                                       PyIndex(gs, -1))>>)),
            err |-> "", occ |-> Len(mem), pushed |-> 1, picked |-> f] :
              f \in SampleIndices(Len(mem), b) }
         \cup
         { [local_memory |-> mem, queue |-> q,
            err |-> "ConnectionError", occ |-> Len(mem), pushed |-> 0,
            picked |-> <<>>] }
    ELSE { [local_memory |-> mem, queue |-> q,
            err |-> "", occ |-> Len(mem), pushed |-> 0, picked |-> <<>>] }

\* Lines 146-147 at loop index tt: every outcome of the cadence test and
\* of GET.  gets is the number of GETs attempted, reply what GET returned.
SyncOutcomes(tt, params, cadence) ==
    IF tt > 0 /\ cadence = 0
    THEN { [policy_net |-> params, err |-> "ZeroDivisionError",
            gets |-> 0, reply |-> None] }
    ELSE IF SyncDue(tt, cadence)
    THEN { [policy_net |-> PullParams(params, reply), err |-> "",
            gets |-> 1, reply |-> reply] : reply \in GetReplies }
         \cup
         { [policy_net |-> params, err |-> "ConnectionError",
            gets |-> 1, reply |-> None] }
    ELSE { [policy_net |-> params, err |-> "", gets |-> 0, reply |-> None] }

\* Mutant of Raise: the exception is caught and the loop goes on.
Swallow(e) == "loop"

\* Where run is after a call that ended with exception e ("" for none):
\* nothing in run or _pull_params catches, so an exception leaves run.
Raise(e) == IF e = "" THEN "loop" ELSE "crashed"

\* Mutant of TailOutcomes: the parameters are fetched before the batch is
\* scored and pushed.
TailOutcomesSyncFirst(mem, params, q, tt, gs, b, cadence) ==
    UNION {
        IF s.err # ""
        THEN { [local_memory |-> mem, queue |-> q,
                policy_net |-> params, t |-> tt, pc |-> Raise(s.err),
                err |-> s.err, occ |-> Len(mem), pushed |-> 0,
                picked |-> <<>>, gets |-> s.gets, reply |-> None] }
        ELSE { [local_memory |-> p.local_memory, queue |-> p.queue,
                policy_net |-> s.policy_net,
                t |-> IF p.err = "" THEN tt + 1 ELSE tt,
                pc |-> Raise(p.err),
                err |-> p.err, occ |-> p.occ, pushed |-> p.pushed,
                picked |-> p.picked, gets |-> s.gets, reply |-> s.reply] :
                  p \in PublishOutcomes(mem, s.policy_net, q, gs, b) }
        : s \in SyncOutcomes(tt, params, cadence) }

\* Lines 136-147 and the step of `for t in count()`: the states the
\* iteration can end in.  An exception leaves run; t is not advanced.
TailOutcomes(mem, params, q, tt, gs, b, cadence) ==
    UNION {
        IF p.err # ""
        THEN { [local_memory |-> p.local_memory, queue |-> p.queue,
                policy_net |-> params, t |-> tt, pc |-> Raise(p.err),
                err |-> p.err, occ |-> p.occ, pushed |-> p.pushed,
                picked |-> p.picked, gets |-> 0, reply |-> None] }
        ELSE { [local_memory |-> p.local_memory, queue |-> p.queue,
                policy_net |-> s.policy_net,
                t |-> IF s.err = "" THEN tt + 1 ELSE tt,
                pc |-> Raise(s.err),
                err |-> s.err, occ |-> p.occ, pushed |-> p.pushed,
                picked |-> p.picked, gets |-> s.gets, reply |-> s.reply] :
                  s \in SyncOutcomes(tt, params, cadence) }
        : p \in PublishOutcomes(mem, params, q, gs, b) }

---------------------------------------------------------------------------
(* Observation of one loop iteration.                                      *)

NoTransition == <<>>

\* Before the first iteration.
EvNone ==
    [iter |-> -1, action |-> -1, sub |-> <<>>, steps |-> 0, raw_reward |-> 0,
     window |-> <<>>, emitted |-> NoTransition, done |-> FALSE, over |-> FALSE,
     length |-> 0, mem |-> <<>>, queue_before |-> <<>>,
     reset |-> FALSE, init_screen |-> -1, finished |-> FALSE,
     occ |-> -1, pushed |-> 0, gets |-> 0, reply |-> None,
     params_before |-> "", stepped |-> <<>>, picked |-> <<>>,
     ep_decisions |-> 0, ep_emitted |-> 0]

\* The tail's part of the observation.
EvTail(e, o) ==
    [e EXCEPT !.finished = (o.err = ""), !.occ = o.occ, !.pushed = o.pushed,
              !.gets = o.gets, !.reply = o.reply, !.picked = o.picked]

\* Nothing generated yet.  win holds, for each entry of step_buffer, the
\* episode and the iteration that built it; mem_ids, for each entry of the
\* local memory, the iteration that pushed it; queue_ids the same for the
\* transitions of each record of the queue; emitted counts the pushes to
\* the local memory, ep_decisions and ep_emitted the decisions and the
\* pushes of the episode being played.
HistNone ==
    [win |-> <<>>, mem_ids |-> <<>>, queue_ids |-> <<>>, emitted |-> 0,
     ep_decisions |-> 0, ep_emitted |-> 0]

\* The tail's part of the bookkeeping: a pushed record takes its
\* transitions, and what is known of them, out of the local memory.
HistTail(h, o) ==
    IF o.pushed = 1
    THEN [h EXCEPT !.queue_ids = rpush(@, Pick(h.mem_ids, o.picked)),
                   !.mem_ids = <<>>]
    ELSE h

---------------------------------------------------------------------------
(* Actor.reset and Actor._initialize.                                      *)

\* Lines 84 and 72-79: the frame stack after clear() and maxlen appends of
\* the tile of the initial screen, both channels holding that screen.
SeededStack(buf, screen, k) ==
    LET tile == preproc_state(<<screen, screen>>)
        RECURSIVE Fill(_, _)
        Fill(b, n) == IF n = 0 THEN b ELSE Fill(DequeAppend(b, tile, k), n - 1)
    IN  Fill(<<>>, k)

\* The number of env.step(0) calls of lines 80-81.
NoOpDraws == RandInt(1, no_op_steps)

---------------------------------------------------------------------------
(* The actions.                                                            *)

\* run, line 89: state = self.reset(), up to the return of reset().
Start ==
    /\ pc = "start"
    /\ \E screen \in env.init_screens, n \in NoOpDraws :
         /\ img_buf' = SeededStack(img_buf, screen, buf_size)
         /\ noop_count' = n
    /\ pc' = "init"
    /\ UNCHANGED <<config, state, step_buffer, gamma_nsteps, eps,
                   length_epsiode, n_episode, t, local_memory, policy_net,
                   queue, err, ev, hist>>

\* run, lines 89-100: the locals of run, then the head of the loop.
EnterLoop ==
    /\ pc = "init"
    /\ state' = Snapshot(img_buf)
    /\ step_buffer' = <<>>
    /\ gamma_nsteps' = GammaNSteps(gamma, nstep_return)
    /\ length_epsiode' = 0
    /\ n_episode' = 0
    /\ eps' = Epsilon(actor_no, num_total_actors)
    /\ t' = 0
    /\ noop_count' = 0
    /\ pc' = "loop"
    /\ UNCHANGED <<config, img_buf, local_memory, policy_net, queue, err, ev,
                   hist>>

\* Lines 104-131 for the chosen action and the environment's answers to
\* the four steps: the values of the locals when line 131 is evaluated.
Decision(action, resp) ==
    LET acc == FrameRepeat(resp, 0,
                   [action |-> action, reward |-> 0, done |-> FALSE,
                    ch0 |-> 0, ch1 |-> 0, length |-> length_epsiode,
                    steps |-> 0, stepped |-> <<>>])
        buf == DequeAppend(img_buf, preproc_state(<<acc.ch0, acc.ch1>>), buf_size)
        next_state == Snapshot(buf)
        reward == Rat(clip(acc.reward), 1)
        sb == DequeAppend(step_buffer,
                          Transition(state, action, reward, next_state, acc.done),
                          nstep_return)
        full == Len(sb) = nstep_return
        agg == IF full THEN NStepTransition(gamma_nsteps, sb, nstep_return)
               ELSE NoTransition
    IN  [img_buf |-> buf, state |-> next_state, step_buffer |-> sb,
         local_memory |-> IF full THEN MemoryPush(local_memory, agg) ELSE local_memory,
         length |-> acc.length, done |-> acc.done,
         ev |-> [EvNone EXCEPT !.iter = t, !.action = action, !.sub = resp,
                               !.steps = acc.steps, !.raw_reward = acc.reward,
                               !.window = sb, !.emitted = agg, !.done = acc.done,
                               !.over = (acc.length > MaxEpisodeLength),
                               !.length = acc.length,
                               !.mem = IF full THEN MemoryPush(local_memory, agg)
                                       ELSE local_memory,
                               !.queue_before = queue,
                               !.params_before = policy_net,
                               !.stepped = acc.stepped,
                               !.ep_decisions = hist.ep_decisions + 1,
                               !.ep_emitted = hist.ep_emitted
                                              + (IF full THEN 1 ELSE 0)],
         hist |-> [hist EXCEPT
                     !.win = DequeAppend(@, [ep |-> n_episode, t |-> t],
                                         nstep_return),
                     !.mem_ids = IF full THEN DequeAppend(@, t, MemoryCapacity)
                                 ELSE @,
                     !.emitted = IF full THEN @ + 1 ELSE @,
                     !.ep_decisions = @ + 1,
                     !.ep_emitted = IF full THEN @ + 1 ELSE @]]

\* One loop iteration in which line 131 is false: lines 104-147.
Play(maxIter) ==
    /\ pc = "loop"
    /\ t < maxIter
    /\ \E action \in epsilon_greedy(env.actions, policy_net, eps),
          resp \in env.responses :
         LET d == Decision(action, resp)
         IN  /\ ~ResetDue(d.done, d.length)
             /\ img_buf' = d.img_buf
             /\ state' = d.state
             /\ step_buffer' = d.step_buffer
             /\ length_epsiode' = d.length
             /\ \E o \in TailOutcomes(d.local_memory, policy_net, queue, t,
                                      gamma_nsteps, batch_size, target_update) :
                  /\ local_memory' = o.local_memory
                  /\ queue' = o.queue
                  /\ policy_net' = o.policy_net
                  /\ t' = o.t
                  /\ pc' = o.pc
                  /\ err' = o.err
                  /\ ev' = EvTail(d.ev, o)
                  /\ hist' = HistTail(d.hist, o)
    /\ UNCHANGED <<config, noop_count, gamma_nsteps, eps, n_episode>>

\* A loop iteration in which line 131 is true, up to the return of the
\* reset() of line 132: lines 104-131, 84 and 72-81.
PlayToReset(maxIter) ==
    /\ pc = "loop"
    /\ t < maxIter
    /\ \E action \in epsilon_greedy(env.actions, policy_net, eps),
          resp \in env.responses :
         LET d == Decision(action, resp)
         IN  /\ ResetDue(d.done, d.length)
             /\ state' = d.state
             /\ step_buffer' = d.step_buffer
             /\ length_epsiode' = d.length
             /\ local_memory' = d.local_memory
             /\ hist' = d.hist
             /\ \E screen \in env.init_screens, n \in NoOpDraws :
                  /\ img_buf' = SeededStack(d.img_buf, screen, buf_size)
                  /\ noop_count' = n
                  /\ ev' = [d.ev EXCEPT !.reset = TRUE, !.init_screen = screen]
    /\ pc' = "reset"
    /\ UNCHANGED <<config, gamma_nsteps, eps, n_episode, t, policy_net, queue,
                   err>>

\* The rest of that iteration: lines 132-147.
FinishReset ==
    /\ pc = "reset"
    /\ state' = Snapshot(img_buf)
    /\ n_episode' = n_episode + 1
    /\ step_buffer' = ClearWindow(step_buffer)
    /\ length_epsiode' = 0
    /\ noop_count' = 0
    /\ \E o \in TailOutcomes(local_memory, policy_net, queue, t,
                             gamma_nsteps, batch_size, target_update) :
         /\ local_memory' = o.local_memory
         /\ queue' = o.queue
         /\ policy_net' = o.policy_net
         /\ t' = o.t
         /\ pc' = o.pc
         /\ err' = o.err
         /\ ev' = EvTail(ev, o)
         /\ hist' = HistTail([hist EXCEPT !.win = ClearWindow(@),
                                          !.ep_decisions = 0,
                                          !.ep_emitted = 0], o)
    /\ UNCHANGED <<config, img_buf, gamma_nsteps, eps>>

---------------------------------------------------------------------------
(* Environments and configurations.                                        *)

Sub(r, d, s) == [reward |-> r, done |-> d, screen |-> s]

\* What an environment answers to the four steps of one decision.
Quiet == <<Sub(0, FALSE, 0), Sub(0, FALSE, 0), Sub(0, FALSE, 0), Sub(0, FALSE, 0)>>

Scoring == <<Sub(1, FALSE, 255), Sub(1, FALSE, 0), Sub(0, FALSE, 0), Sub(0, FALSE, 255)>>

EarlyDone == <<Sub(-3, TRUE, 255), Sub(0, FALSE, 255), Sub(0, FALSE, 255), Sub(0, FALSE, 0)>>

AlwaysDone == <<Sub(5, TRUE, 255), Sub(5, TRUE, 255), Sub(5, TRUE, 255), Sub(5, TRUE, 255)>>

\* A two-action environment that can answer any of the above.
GameEnv ==
    [actions |-> {0, 1},
     responses |-> {Quiet, Scoring, EarlyDone, AlwaysDone},
     init_screens |-> {100}]

Config(n, b, c, k, a, m) ==
    [nstep_return |-> n, batch_size |-> b, target_update |-> c, buf_size |-> k,
     actor_no |-> a, num_total_actors |-> m]

\* (nstep_return, batch_size, target_update, buf_size, actor_no,
\* num_total_actors) of the actors explored.
Configs ==
    { Config(1, 1, 1, 1, 1, 1), Config(2, 2, 2, 2, 1, 4),
      Config(3, 1, 2, 2, 4, 4), Config(1, 2, 0, 2, 2, 4) }

\* The state Actor.__init__ leaves, for environment e and configuration c.
Constructed(e, c) ==
    /\ env = e
    /\ batch_size = c.batch_size
    /\ nstep_return = c.nstep_return
    /\ gamma = Rat(9, 10)
    /\ target_update = c.target_update
    /\ buf_size = c.buf_size
    /\ actor_no = c.actor_no
    /\ num_total_actors = c.num_total_actors
    /\ eps = Unbound
    /\ hist = HistNone
    /\ pc = "start"
    /\ img_buf = <<>>
    /\ noop_count = 0
    /\ state = <<>>
    /\ step_buffer = <<>>
    /\ gamma_nsteps = <<>>
    /\ length_epsiode = 0
    /\ n_episode = 0
    /\ t = 0
    /\ local_memory = <<>>
    /\ policy_net = InitialParams
    /\ queue = <<>>
    /\ err = ""
    /\ ev = EvNone

Init == \E c \in Configs : Constructed(GameEnv, c)

\* A one-action environment in which nothing ever happens.
StillEnv == [actions |-> {0}, responses |-> {Quiet}, init_screens |-> {100}]

\* An actor that asks for more transitions per batch than its local memory
\* holds, so it never publishes, and that syncs once in 12500 iterations.
StillConfig == Config(1, MemoryCapacity + 1, 12500, 1, 1, 1)

InitStill == Constructed(StillEnv, StillConfig)

\* The loop iterations the model follows an actor for.
IterBound == IF env = StillEnv THEN MaxStillIter ELSE MaxIter

Next ==
    \/ Start
    \/ EnterLoop
    \/ Play(IterBound)
    \/ PlayToReset(IterBound)
    \/ FinishReset

Spec == Init /\ [][Next]_vars

\* The same actor, also followed through an episode that only the cap ends.
SpecEpisodes == (Init \/ InitStill) /\ [][Next]_vars


---------------------------------------------------------------------------
(* What the claims speak of.                                               *)

\* The last loop iteration made its decision (lines 104-131).
Decided == ev.iter >= 0

\* The last loop iteration evaluated line 136.
ReachedPublish == ev.occ >= 0

\* The RPUSH of the last iteration raised.
PushFailed == err = "ConnectionError" /\ ev.gets = 0

\* The frame stack reset() leaves for initial screen s: buf_size tiles of it.
FreshStack(s) == [i \in 1..buf_size |-> Rat(s, PixelScale)]

\* sum of gamma^(N-1-i) * w[i].reward over the window, by Horner's rule:
\* ((r0 * gamma + r1) * gamma + r2) ...
RECURSIVE HornerReturn(_, _, _)
HornerReturn(w, i, acc) ==
    IF i > Len(w) THEN acc
    ELSE HornerReturn(w, i + 1, RatAdd(RatMul(acc, gamma), w[i].reward))

\* The positions of mem that sequence s can have been taken from, one each.
TakenFrom(s, mem) ==
    \E f \in [1..Len(s) -> 1..Len(mem)] :
        /\ \A i, j \in 1..Len(s) : i # j => f[i] # f[j]
        /\ \A i \in 1..Len(s) : s[i] = mem[f[i]]

---------------------------------------------------------------------------
(* C1 .. C10                                                               *)

\* C1: in an iteration whose local memory holds batch_size transitions (or
\* more) at line 136, exactly one record is appended to the queue, it holds
\* batch_size transitions sampled from the memory and batch_size weights,
\* and the memory is empty afterwards; in an iteration whose memory holds
\* fewer, nothing is appended and the memory is kept.
C1_PublishAtThreshold ==
    (ReachedPublish /\ ~PushFailed) =>
        IF ev.occ >= batch_size
        THEN /\ Len(queue) = Len(ev.queue_before) + 1
             /\ SubSeq(queue, 1, Len(ev.queue_before)) = ev.queue_before
             /\ LET rec == queue[Len(queue)][2]
                IN  /\ Len(rec[1]) = batch_size
                    /\ Len(rec[2]) = batch_size
                    /\ TakenFrom(rec[1], ev.mem)
             /\ local_memory = <<>>
        ELSE /\ queue = ev.queue_before
             /\ local_memory = ev.mem

\* C1 witness: an iteration of a batch_size 2 actor found two transitions
\* in the memory and published them.
C1_Witness ==
    /\ pc = "loop" /\ batch_size = 2 /\ ev.occ = 2
    /\ Len(queue) = 1 /\ Len(queue[1][2][1]) = 2 /\ local_memory = <<>>

\* C2: when the step window holds nstep_return transitions after the
\* append of line 124, the transition pushed to the local memory has the
\* state and action of the oldest entry, the next_state and done of the
\* newest, and the reward sum of gamma^(N-1-i) * window[i].reward.
C2_NStepAggregate ==
    (Decided /\ Len(ev.window) = nstep_return) =>
        /\ ev.emitted =
             [state |-> ev.window[1].state,
              action |-> ev.window[1].action,
              reward |-> HornerReturn(ev.window, 1, Rat(0, 1)),
              next_state |-> ev.window[nstep_return].next_state,
              done |-> ev.window[nstep_return].done]
        /\ Len(ev.mem) > 0
        /\ ev.mem[Len(ev.mem)] = ev.emitted
        /\ pc = "reset" => local_memory = ev.mem

\* C2 witness: N = 3 and window rewards 1, 0, 0 give gamma^2 = 81/100.
C2_Witness ==
    /\ Decided /\ nstep_return = 3 /\ Len(ev.window) = 3
    /\ ev.window[1].reward = Rat(1, 1)
    /\ ev.window[2].reward = Rat(0, 1)
    /\ ev.window[3].reward = Rat(0, 1)
    /\ ev.window[1].state # ev.window[3].state
    /\ ev.emitted.reward = Rat(81, 100)

\* C3: an iteration whose decision ends with the terminal flag set, or
\* with length_epsiode above 50000, clears the frame stack and the step
\* window, seeds the frame stack with the initial screen, runs the no-op
\* warm-up and sets the counter to 0 before the loop selects again; any
\* other iteration does none of this.
C3_ResetBoundary ==
    Decided =>
        LET due == ev.done \/ ev.length > 50000
        IN  /\ ev.reset <=> due
            /\ pc = "reset" =>
                 /\ ev.reset
                 /\ noop_count >= 1
                 /\ img_buf = FreshStack(ev.init_screen)
            /\ (pc = "loop" /\ due) =>
                 /\ ev.reset
                 /\ img_buf = FreshStack(ev.init_screen)
                 /\ state = img_buf
                 /\ step_buffer = <<>>
                 /\ length_epsiode = 0
                 /\ noop_count = 0
            /\ (pc = "loop" /\ ~due) =>
                 /\ ~ev.reset
                 /\ step_buffer = ev.window
                 /\ length_epsiode = ev.length
                 /\ state = ev.window[Len(ev.window)].next_state
                 /\ img_buf = state

\* C3 witness: the cap alone ended an episode, and the loop is back at its
\* head with everything cleared.
C3_Witness ==
    /\ pc = "loop" /\ Decided /\ ev.reset /\ ~ev.done
    /\ ev.length > 50000 /\ length_epsiode = 0 /\ step_buffer = <<>>

\* C4 as claimed: done on any of the four steps of a decision makes the
\* decision's transition done and resets the episode in that iteration.
C4_AnySubStepDone ==
    (Decided /\ \E i \in 1..FrameSkip : ev.sub[i].done) =>
        /\ ev.window[Len(ev.window)].done
        /\ ev.reset

\* C5: the frame stack holds buf_size tiles whenever it is read as a state:
\* when reset() returns, when the loop selects an action, and in the state
\* and next_state of every transition built.
C5_FrameStackFull ==
    /\ pc # "start" => Len(img_buf) = buf_size
    /\ pc \in {"loop", "reset"} => Len(state) = buf_size
    /\ \A i \in 1..Len(step_buffer) :
         /\ Len(step_buffer[i].state) = buf_size
         /\ Len(step_buffer[i].next_state) = buf_size
    /\ \A i \in 1..Len(ev.window) :
         /\ Len(ev.window[i].state) = buf_size
         /\ Len(ev.window[i].next_state) = buf_size

\* C5 witness: a two-tile actor selecting in its second episode.
C5_Witness ==
    /\ pc = "loop" /\ buf_size = 2 /\ n_episode >= 1 /\ t >= 2
    /\ Len(state) = 2 /\ Len(step_buffer) >= 1

\* C6: with target_update > 0, iteration t attempts GET 'params' exactly
\* when t > 0 and t is a multiple of target_update.
C6_SyncCadence ==
    (target_update > 0 /\ Decided) =>
        LET due == ev.iter > 0 /\ ev.iter % target_update = 0
        IN  /\ ev.gets = 1 => due
            /\ ev.finished => (ev.gets = 1 <=> due)
            /\ ev.finished => t = ev.iter + 1

\* C6 witness: the third iteration (t = 2) of a cadence 2 actor fetched.
C6_Witness ==
    /\ target_update = 2 /\ ev.finished /\ ev.iter = 2 /\ ev.gets = 1

\* C7 as claimed: with target_update = 0 the actor attempts no fetch and
\* runs on without an error.
C7_ZeroCadenceRuns ==
    target_update = 0 => (ev.gets = 0 /\ err # "ZeroDivisionError")

\* C8: the parameters change only in _pull_params: after an iteration they
\* are what GET returned, deserialized, if it returned a value, and what
\* they were before the iteration otherwise.
C8_PullParamsEffect ==
    /\ ~Decided => policy_net = InitialParams
    /\ Decided =>
         policy_net = IF ev.gets = 1 /\ ev.reply # <<>>
                      THEN ev.reply[2]
                      ELSE ev.params_before

\* C8 witness: parameters p2 were overwritten by a stored p1.
C8_Witness ==
    /\ ev.finished /\ ev.gets = 1 /\ ev.params_before = "p2"
    /\ ev.reply = <<"pickle", "p1">> /\ policy_net = "p1"

\* C9 as claimed: a reset runs between 1 and 30 no-ops, and 30 can occur.
C9_NoOpRangeTo30 ==
    /\ pc \in {"init", "reset"} => noop_count \in 1..30
    /\ pc = "start" => ENABLED (Start /\ noop_count' = 30)

\* C10: against an environment answering done and reward 5 on every step,
\* the first iteration of an actor with nstep_return 1 and batch_size 1
\* pushes one record of one transition, whose reward is the sum 20 clipped
\* to [-1, 1] and whose done is true, and resets the episode.
C10_StubScenario ==
    (/\ nstep_return = 1 /\ batch_size = 1
     /\ ev.iter = 0 /\ ev.sub = AlwaysDone
     /\ ReachedPublish /\ ~PushFailed) =>
        /\ Len(queue) = 1
        /\ LET rec == queue[1][2]
           IN  /\ Len(rec[1]) = 1
               /\ rec[1][1].reward = Rat(Min(Max(-1, 5 + 5 + 5 + 5), 1), 1)
               /\ rec[1][1].done
               /\ rec[1][1].state = FreshStack(100)
        /\ ev.reset
        /\ pc = "loop" =>
             /\ step_buffer = <<>> /\ length_epsiode = 0
             /\ n_episode = 1 /\ state = FreshStack(ev.init_screen)

\* C10 witness: that iteration, completed.
C10_Witness ==
    /\ nstep_return = 1 /\ batch_size = 1 /\ pc = "loop" /\ t = 1
    /\ ev.sub = AlwaysDone /\ Len(queue) = 1 /\ ev.reset /\ n_episode = 1

---------------------------------------------------------------------------
(* C11 .. C20                                                              *)

\* The iterations that generated the transitions of the queue's records,
\* record after record, and then those of the local memory.
Flat(ids) ==
    LET RECURSIVE Cat(_)
        Cat(i) == IF i > Len(ids) THEN <<>> ELSE ids[i] \o Cat(i + 1)
    IN  Cat(1)

EpsilonIs(e, a, n) ==
    IF n = 1 THEN e = [radicand |-> Rat(2, 5), index |-> 1]
    ELSE /\ e.index >= 1
         /\ \E k \in 0 .. ((n - 1) + (a - 1) * 7) :
              /\ k * (n - 1) = e.index * ((n - 1) + (a - 1) * 7)
              /\ e.radicand = RatPow(Rat(2, 5), k)

\* C12: from the first iteration on eps is the value of the formula for
\* this actor (2/5 for actor 1 of 4, (2/5)^8 = 256/390625 for actor 4 of
\* 4), and no step of the loop changes it.
C12_Epsilon ==
    /\ [](pc \in {"loop", "reset", "crashed"} =>
            /\ EpsilonIs(eps, actor_no, num_total_actors)
            /\ (num_total_actors = 4 /\ actor_no = 1) =>
                  eps = [radicand |-> Rat(2, 5), index |-> 1]
            /\ (num_total_actors = 4 /\ actor_no = 4) =>
                  eps = [radicand |-> Rat(256, 390625), index |-> 1])
    /\ [][(pc \in {"loop", "reset"}) => (eps' = eps)]_vars

\* C12 witness: actor 4 of 4 after two iterations.
C12_Witness ==
    /\ pc = "loop" /\ t = 2 /\ num_total_actors = 4 /\ actor_no = 4
    /\ eps = [radicand |-> Rat(256, 390625), index |-> 1]

\* C13: an exception of RPUSH or GET ends run: the actor is stopped with
\* the error and can take no further step; after a failed RPUSH the queue
\* is as it was before the iteration (the batch is not pushed, then or
\* later) and no GET was attempted; after a failed GET the parameters are
\* unchanged; the loop index was not advanced.
C13_FailFast ==
    /\ err # "" => pc = "crashed"
    /\ pc = "crashed" =>
         /\ err \in {"ConnectionError", "ZeroDivisionError"}
         /\ ~ENABLED Next
         /\ t = ev.iter
         /\ policy_net = ev.params_before
         /\ PushFailed =>
              /\ queue = ev.queue_before
              /\ local_memory = ev.mem
              /\ ev.pushed = 0
         /\ (err = "ConnectionError" /\ ev.gets = 1) =>
              Len(queue) = Len(ev.queue_before) + ev.pushed

\* C13 witness: the second RPUSH of an actor failed.
C13_Witness ==
    /\ pc = "crashed" /\ PushFailed /\ Len(queue) = 1
    /\ Len(local_memory) = batch_size

\* C14: a decision made with a full window drops the oldest entry, appends
\* the new one and pushes one aggregated transition to the local memory;
\* one made with a shorter window appends, and pushes only if that fills
\* the window; the decision leaves the window as it built it (the emission
\* clears nothing), and only the reset of an episode empties it.
C14_SlidingWindow ==
    [][/\ pc = "loop" =>
            LET w == ev'.window
                new == w[Len(w)]
            IN  /\ Len(step_buffer) = nstep_return =>
                     /\ w = Append(Tail(step_buffer), new)
                     /\ ev'.mem = Append(local_memory, ev'.emitted)
                /\ Len(step_buffer) < nstep_return =>
                     w = Append(step_buffer, new)
                /\ Len(w) = nstep_return =>
                     ev'.mem = Append(local_memory, ev'.emitted)
                /\ Len(w) < nstep_return => ev'.mem = local_memory
                /\ Len(w) <= nstep_return
                /\ step_buffer' = w
       /\ pc = "reset" =>
            /\ step_buffer' = <<>>
            /\ ev'.mem = ev.mem
            /\ local_memory' \in {local_memory, <<>>}
       /\ (step_buffer # <<>> /\ step_buffer' = <<>>) => pc = "reset"]_vars

\* C14 witness: the third decision of an episode slid a window of two and
\* emitted the episode's second aggregated transition.
C14_Witness ==
    /\ pc = "loop" /\ nstep_return = 2 /\ ev.iter = 2 /\ ~ev.reset
    /\ hist.ep_decisions = 3 /\ hist.ep_emitted = 2 /\ Len(step_buffer) = 2
    /\ hist.win = <<[ep |-> 0, t |-> 1], [ep |-> 0, t |-> 2]>>

\* C15: a decision calls env.step four times, each time with the action
\* selected, whatever the steps report as done, and the reward of its
\* transition is the sum of the four rewards clipped once to [-1, 1].
C15_FrameRepeat ==
    Decided =>
        LET new == ev.window[Len(ev.window)]
            total == ev.sub[1].reward + ev.sub[2].reward
                     + ev.sub[3].reward + ev.sub[4].reward
        IN  /\ ev.steps = 4
            /\ ev.stepped = <<ev.action, ev.action, ev.action, ev.action>>
            /\ ev.raw_reward = total
            /\ new.action = ev.action
            /\ new.reward = Rat(IF total < -1 THEN -1
                                ELSE IF total > 1 THEN 1 ELSE total, 1)
            /\ new.done = ev.sub[4].done

\* C15 witness: a decision whose first step reported done (and reward -3)
\* took all four steps with action 1.
C15_Witness ==
    /\ Decided /\ ev.sub = EarlyDone /\ ev.action = 1
    /\ ev.stepped = <<1, 1, 1, 1>>
    /\ ev.window[Len(ev.window)].reward = Rat(-1, 1)

\* C16: an iteration that reached line 136 made one decision (four steps
\* of the environment), then the reset if it was due, then at most one
\* RPUSH, then at most one GET: the record pushed is drawn from the memory
\* as the decision left it and its weights are scored with the parameters
\* the iteration started with, also when the GET that follows replaces
\* them; a failed RPUSH comes after the reset and before any GET; a GET is
\* attempted only after the RPUSH that was due; the loop index advances by
\* one.
C16_IterationOrder ==
    ReachedPublish =>
        /\ Len(ev.stepped) = 4
        /\ ev.pushed \in {0, 1}
        /\ ev.gets \in {0, 1}
        /\ Len(queue) = Len(ev.queue_before) + ev.pushed
        /\ ev.pushed = 1 =>
             LET rec == queue[Len(queue)][2]
             IN  /\ rec[1] = [i \in 1..batch_size |-> ev.mem[ev.picked[i]]]
                 /\ \A i \in 1..Len(rec[2]) : rec[2][i].params = ev.params_before
        /\ ev.reset => (step_buffer = <<>> /\ length_epsiode = 0 /\ n_episode >= 1)
        /\ ev.gets = 1 => (ev.occ >= batch_size => ev.pushed = 1)
        /\ PushFailed => (ev.gets = 0 /\ policy_net = ev.params_before)
        /\ ev.finished => (t = ev.iter + 1 /\ pc = "loop")

\* C16 witness: one iteration reset the episode, pushed a record scored
\* with p0 and then loaded other parameters.
C16_Witness ==
    /\ ev.finished /\ ev.reset /\ ev.pushed = 1 /\ ev.gets = 1
    /\ ev.params_before = "p0" /\ policy_net = "p1"
    /\ queue[Len(queue)][2][2][1].params = "p0"

\* C17: for 1 <= batch_size <= 1000 the local memory never holds more than
\* batch_size transitions and holds fewer when the loop selects; line 136
\* passes only at exactly batch_size; the batch pushed then holds every
\* transition of the memory, so the clear drops none that was not pushed;
\* and every transition ever emitted is, once, in a record of the queue or
\* still in the memory.
C17_OccupancyBound ==
    (batch_size >= 1 /\ batch_size <= 1000) =>
        /\ Len(local_memory) <= batch_size
        /\ pc = "loop" => Len(local_memory) < batch_size
        /\ (ReachedPublish /\ ev.occ >= batch_size) => ev.occ = batch_size
        /\ ev.pushed = 1 =>
             /\ ev.occ = Len(ev.mem)
             /\ { ev.picked[i] : i \in 1..Len(ev.picked) } = 1..Len(ev.mem)
        /\ Len(hist.mem_ids) = Len(local_memory)
        /\ LET all == Flat(hist.queue_ids) \o hist.mem_ids
           IN  /\ Len(all) = hist.emitted
               /\ \A i, j \in 1..Len(all) : i # j => all[i] # all[j]

\* C17 witness: a batch_size 2 actor found occupancy 2 at line 136 and
\* published both transitions it had emitted.
C17_Witness ==
    /\ batch_size = 2 /\ ev.occ = 2 /\ ev.pushed = 1 /\ pc = "loop"
    /\ Len(queue) = 1 /\ Len(queue[1][2][1]) = 2
    /\ hist.emitted = 2 /\ local_memory = <<>>

\* The entries of window w chain: each one's next_state is the state of
\* the one after it, and none but the last is done.
Chained(w) ==
    \A i \in 1..(Len(w) - 1) :
        /\ w[i].next_state = w[i + 1].state
        /\ ~w[i].done

\* C18: the entries of the step window were built by consecutive
\* iterations of the episode being played (the one being ended, while its
\* reset is under way), they chain, and when the loop selects the last
\* one leads to the current state and is not done; so the window an
\* aggregated transition is computed from is N chained decisions of one
\* episode.
C18_SingleEpisodeWindow ==
    /\ Len(hist.win) = Len(step_buffer)
    /\ Len(step_buffer) <= hist.ep_decisions
    /\ \A i \in 1..Len(step_buffer) : hist.win[i].ep = n_episode
    /\ \A i \in 1..(Len(step_buffer) - 1) : hist.win[i + 1].t = hist.win[i].t + 1
    /\ Chained(step_buffer)
    /\ Chained(ev.window)
    /\ (pc = "loop" /\ step_buffer # <<>>) =>
         /\ step_buffer[Len(step_buffer)].next_state = state
         /\ ~step_buffer[Len(step_buffer)].done
         /\ hist.win[Len(step_buffer)].t = t - 1
    /\ pc = "reset" => step_buffer = ev.window

\* C18 witness: the second episode of an actor with N = 3 has two entries
\* in the window, both its own.
C18_Witness ==
    /\ pc = "loop" /\ nstep_return = 3 /\ n_episode = 1
    /\ hist.win = <<[ep |-> 1, t |-> 1], [ep |-> 1, t |-> 2]>>
    /\ Len(step_buffer) = 2

\* What an episode of l decisions pushes to the local memory with a window
\* of n: max(0, l - n + 1) transitions.
Yield(l, n) == IF l - n + 1 > 0 THEN l - n + 1 ELSE 0

\* C19: after L decisions of an episode, max(0, L - N + 1) aggregated
\* transitions of it have been pushed to the local memory; so an episode
\* reset after L decisions has contributed that many, none if L < N, and
\* its reset leaves the window empty: the raw transitions are gone.
C19_EpisodeYield ==
    /\ hist.ep_emitted = Yield(hist.ep_decisions, nstep_return)
    /\ Decided =>
         /\ ev.ep_emitted = Yield(ev.ep_decisions, nstep_return)
         /\ (ev.reset /\ ev.ep_decisions < nstep_return) =>
              /\ ev.ep_emitted = 0
              /\ Len(ev.window) = ev.ep_decisions
         /\ (ev.reset /\ pc # "reset") =>
              /\ step_buffer = <<>>
              /\ hist.ep_decisions = 0
              /\ hist.ep_emitted = 0

\* C19 witness: an episode of three decisions with N = 2 was reset after
\* contributing two transitions.
C19_Witness ==
    /\ pc = "loop" /\ ev.reset /\ nstep_return = 2
    /\ ev.ep_decisions = 3 /\ ev.ep_emitted = 2 /\ hist.emitted = 2
    /\ step_buffer = <<>>

\* C20: length_epsiode is four times the decisions of the episode (the
\* no-ops of a reset leave it alone); when the loop selects it is a
\* multiple of 4 and at most 50000; a reset sets it to 0; and no episode
\* reaches a 12502nd decision.
C20_StepCounter ==
    /\ pc = "loop" =>
         /\ length_epsiode = 4 * hist.ep_decisions
         /\ length_epsiode % 4 = 0
         /\ length_epsiode <= 50000
    /\ hist.ep_decisions <= 12501
    /\ Decided =>
         /\ ev.length = 4 * ev.ep_decisions
         /\ ev.ep_decisions <= 12501
         /\ (ev.reset /\ pc = "loop") => length_epsiode = 0
    /\ pc = "reset" => (noop_count >= 1 /\ length_epsiode = ev.length)
    /\ pc = "init" => (noop_count >= 1 /\ length_epsiode = 0)

\* C20 witness: two decisions into its second episode (after a reset and
\* its no-ops) the counter of an actor is 8.
C20_Witness ==
    /\ pc = "loop" /\ n_episode = 1 /\ t = 3 /\ ~ev.reset
    /\ hist.ep_decisions = 2 /\ length_epsiode = 8 /\ ev.length = 8

====
